---- MODULE Spec2Model ----
(***************************************************************************)
(* Model of puzzle/app.py: the Grid (letter matrix, its cached letters    *)
(* and lines, its shared iteration cursor), the lazy word pipeline         *)
(* (read_words, filter_by_length, filter_by_letters) and                   *)
(* Finder.find_words.                                                      *)
(*                                                                         *)
(* A string is a sequence of one-character strings; None is the empty      *)
(* sequence <<>> and a cached value v is <<v>>.                            *)
(***************************************************************************)
EXTENDS Integers, Sequences, FiniteSets, TLC

\* ------------------------------------------------------------------ bounds
MaxDepth  == 3      \* rows of a grid
MaxLength == 2      \* columns of a grid
MaxWords  == 2      \* lines of the dictionary file

\* ------------------------------------------------------------ input alphabets
Letters    == {"a", "b"}
WideLetters == {"a", "b", "c"}
Whitespace == {" "}
SEP        == "|"

\* The lines a dictionary file is built from: a blank line, a word followed
\* by trailing whitespace, and a word that holds the separator.
Dictionary == { <<" ">>, <<"a", "b", " ">>, <<"a", "|", "b">> }

VARIABLES
    grid,       \* Grid.grid: the rows
    length,     \* Grid.length (declared)
    depth,      \* Grid.depth (declared)
    _letters,   \* Grid._letters cache
    _lines,     \* Grid._lines cache
    _number,    \* Grid._number, the shared iteration cursor
    _words,     \* Finder._words
    fs,         \* what the dictionary path names on disk
    ret,        \* outcome of the last operation: [op, exc, val]
    prev,       \* outcome of the find_words call before the last one
    opened,     \* the last find_words call executed open()
    pulled,     \* words the last find_words call pulled from read_words
    loop,       \* the observed for-loop over the Grid: "idle", "running", "stopped"
    yielded     \* row indices the observed loop has been given

vars == <<grid, length, depth, _letters, _lines, _number, _words, fs, ret, prev,
          opened, pulled, loop, yielded>>

\* ------------------------------------------------------------ string helpers
Reverse(s) == [i \in 1..Len(s) |-> s[Len(s) + 1 - i]]

RECURSIVE LStrip(_)
LStrip(s) == IF s # <<>> /\ s[1] \in Whitespace THEN LStrip(Tail(s)) ELSE s

Strip(s) == Reverse(LStrip(Reverse(LStrip(s))))

RECURSIVE Join(_, _)
Join(strs, sep) ==
    IF strs = <<>> THEN <<>>
    ELSE IF Len(strs) = 1 THEN strs[1]
    ELSE strs[1] \o <<sep>> \o Join(Tail(strs), sep)

Contains(hay, needle) ==
    \E i \in 0..(Len(hay) - Len(needle)) : SubSeq(hay, i + 1, i + Len(needle)) = needle

RECURSIVE Dedup(_)
Dedup(s) ==
    IF s = <<>> THEN <<>>
    ELSE LET front == Dedup(SubSeq(s, 1, Len(s) - 1))
             last  == s[Len(s)]
         IN IF \E i \in 1..Len(front) : front[i] = last THEN front ELSE Append(front, last)

RotateRight(s) == IF s = <<>> THEN s ELSE <<s[Len(s)]>> \o SubSeq(s, 1, Len(s) - 1)

Return(op, val) == [op |-> op, exc |-> "", val |-> val]
Raise(op, exc)  == [op |-> op, exc |-> exc, val |-> <<>>]

\* ------------------------------------------------------------------- Grid
\* self.grid[row][column], 0-based as in the source
Cell(g, row, column) == g[row + 1][column + 1]

\* an index the list-of-lists does not have: IndexError
OutOfRange(g, row, column) == row >= Len(g) \/ column >= Len(g[row + 1])

max_size(len, dep) == IF len > dep THEN len ELSE dep

\* `if not self._letters`: None and the empty set are both falsy
LettersCacheHit(cache) == cache # <<>> /\ cache[1] # {}

\* {l for l in itertools.chain(*self.grid)}
ComputeLetters(g) == UNION { {g[i][j] : j \in 1..Len(g[i])} : i \in 1..Len(g) }

\* the value the letters property returns, and the cache it leaves
letters(g, cache) == IF LettersCacheHit(cache) THEN cache[1] ELSE ComputeLetters(g)

RECURSIVE HorizontalFrom(_, _)
HorizontalFrom(g, i) ==
    IF i > Len(g) THEN <<>>
    ELSE <<g[i], Reverse(g[i])>> \o HorizontalFrom(g, i + 1)

horizontal_lines(g) == HorizontalFrom(g, 1)

Column(g, dep, column_index) == [row \in 1..dep |-> Cell(g, row - 1, column_index)]

RECURSIVE VerticalFrom(_, _, _, _)
VerticalFrom(g, len, dep, column_index) ==
    IF column_index >= len THEN <<>>
    ELSE <<Column(g, dep, column_index), Reverse(Column(g, dep, column_index))>>
         \o VerticalFrom(g, len, dep, column_index + 1)

RECURSIVE VerticalForwardOnly(_, _, _, _)
VerticalForwardOnly(g, len, dep, column_index) ==
    IF column_index >= len THEN <<>>
    ELSE <<Column(g, dep, column_index), Column(g, dep, column_index)>>
         \o VerticalForwardOnly(g, len, dep, column_index + 1)

\* faulty variant: `columns.append(letters)` twice, the reversal forgotten
vertical_lines_unreversed(g, len, dep) == VerticalForwardOnly(g, len, dep, 0)

vertical_lines(g, len, dep) == VerticalFrom(g, len, dep, 0)

\* vertical_lines indexes self.grid[row_index][column_index] for every declared cell
VerticalFault(g, len, dep) ==
    \E column_index \in 0..(len - 1), row_index \in 0..(dep - 1) :
        OutOfRange(g, row_index, column_index)

\* the inner loop of diagonal_lines for one offset; acc = [left, right]
RECURSIVE Walk(_, _, _, _, _, _)
Walk(g, len, dep, offset, column_index, acc) ==
    IF column_index >= dep THEN acc
    ELSE LET right_index == column_index + offset
             left_index  == right_index - 2
         IN IF column_index = 0
            THEN Walk(g, len, dep, offset, column_index + 1,
                      [left  |-> Append(acc.left, Cell(g, column_index, right_index)),
                       right |-> Append(acc.right, Cell(g, column_index, right_index))])
            ELSE Walk(g, len, dep, offset, column_index + 1,
                      [left  |-> IF len > left_index /\ left_index >= 0
                                 THEN Append(acc.left, Cell(g, column_index, left_index))
                                 ELSE acc.left,
                       right |-> IF right_index < len
                                 THEN Append(acc.right, Cell(g, column_index, right_index))
                                 ELSE acc.right])

\* what one offset adds to the set, in the order of the add() calls
OffsetAdds(g, len, dep, offset) ==
    LET w == Walk(g, len, dep, offset, 0, [left |-> <<>>, right |-> <<>>])
    IN (IF w.right # <<>> THEN <<w.right, Reverse(w.right)>> ELSE <<>>)
       \o (IF w.left # <<>> THEN <<w.left, Reverse(w.left)>> ELSE <<>>)

RECURSIVE DiagonalAdds(_, _, _, _)
DiagonalAdds(g, len, dep, offset) ==
    IF offset >= len THEN <<>>
    ELSE OffsetAdds(g, len, dep, offset) \o DiagonalAdds(g, len, dep, offset + 1)

diagonal_lines(g, len, dep) ==
    LET adds == DiagonalAdds(g, len, dep, 0) IN {adds[i] : i \in 1..Len(adds)}

\* the cells diagonal_lines indexes
DiagonalFault(g, len, dep) ==
    \E offset \in 0..(len - 1), column_index \in 0..(dep - 1) :
        LET right_index == column_index + offset
            left_index  == right_index - 2
        IN \/ column_index = 0 /\ OutOfRange(g, column_index, right_index)
           \/ column_index > 0 /\ right_index < len /\ OutOfRange(g, column_index, right_index)
           \/ column_index > 0 /\ len > left_index /\ left_index >= 0
              /\ OutOfRange(g, column_index, left_index)

\* `*self.diagonal_lines` unpacks a set: its order is the hash order, which the
\* source does not fix.  Two orders stand for it: the order of insertion and
\* that order rotated by one.
SetOrders(g, len, dep) ==
    LET d == Dedup(DiagonalAdds(g, len, dep, 0)) IN {d, RotateRight(d)}

\* faulty variant: the lines are rebuilt on every access
LinesNeverCached(cache) == FALSE

\* `if not self._lines`: None and the empty list are both falsy
LinesCacheHit(cache) == cache # <<>> /\ cache[1] # <<>>

LinesFault(g, len, dep) == VerticalFault(g, len, dep) \/ DiagonalFault(g, len, dep)

\* the lists [*vertical, *horizontal, *diagonal] the lines property can build
ComputeLines(g, len, dep) ==
    { vertical_lines(g, len, dep) \o horizontal_lines(g) \o e : e \in SetOrders(g, len, dep) }

\* the values the lines property can return
lines(g, len, dep, cache) ==
    IF LinesCacheHit(cache) THEN {cache[1]} ELSE ComputeLines(g, len, dep)

\* ------------------------------------------------------ the word pipeline
\* read_words: `if not (p.exists() and p.is_file())`
SourceUnavailable(f) == ~(f.exists /\ f.is_file)

\* filter_by_length: `if len(word) <= length`
PassesLength(word, size) == Len(word) <= size

\* filter_by_letters: `first_letter = word[0]` on a word without characters
FirstLetterFault(word) == Len(word) = 0

\* filter_by_letters: `if first_letter in letters`
PassesLetters(word, lts) == word[1] \in lts

\* the loop of find_words pulling line i, i+1, ... of the file through
\* read_words (strip), filter_by_length and filter_by_letters
RECURSIVE Pipeline(_, _, _, _, _, _)
Pipeline(content, i, size, lts, corpus, exist_words) ==
    IF i > Len(content)
    THEN [exc |-> "", val |-> exist_words, pulled |-> Len(content)]
    ELSE LET word == Strip(content[i])
         IN IF ~PassesLength(word, size)
            THEN Pipeline(content, i + 1, size, lts, corpus, exist_words)
            ELSE IF FirstLetterFault(word)
            THEN [exc |-> "IndexError", val |-> <<>>, pulled |-> i]
            ELSE IF PassesLetters(word, lts) /\ Contains(corpus, word)
            THEN Pipeline(content, i + 1, size, lts, corpus, Append(exist_words, word))
            ELSE Pipeline(content, i + 1, size, lts, corpus, exist_words)

\* faulty variant: `<= 1` for `< 1`
GridIsEmptyOrSingle(len, dep) == max_size(len, dep) <= 1

\* faulty variant: `< 0` for `< 1`
GridIsNegative(len, dep) == max_size(len, dep) < 0

\* find_words: `if self.grid.max_size < 1: return []`
GridIsEmpty(len, dep) == max_size(len, dep) < 1

\* find_words from `all_possible_lines = "|".join(...)` on, given the lines
Search(f, len, dep, lts, ls) ==
    IF SourceUnavailable(f)
    THEN [exc |-> "FileNotFoundError", val |-> <<>>, pulled |-> 0, opened |-> FALSE]
    ELSE LET out == Pipeline(f.content, 1, max_size(len, dep), lts, Join(ls, SEP), <<>>)
         IN [exc |-> out.exc, val |-> out.val, pulled |-> out.pulled, opened |-> TRUE]

\* ---------------------------------------------------------------- inputs
NoFile    == [exists |-> FALSE, is_file |-> FALSE, content |-> <<>>]
Directory == [exists |-> TRUE, is_file |-> FALSE, content |-> <<>>]
File(c)   == [exists |-> TRUE, is_file |-> TRUE, content |-> c]

Contents == UNION { [1..n -> Dictionary] : n \in 0..MaxWords }
Sources  == {NoFile, Directory} \cup { File(c) : c \in Contents }

\* rectangular rows with the dimensions that describe them
GridInputs(alphabet) ==
    UNION { { <<rows, l, d>> : rows \in [1..d -> [1..l -> alphabet]] } :
            d \in 0..MaxDepth, l \in 0..MaxLength }

\* rows of one letter under every declared length and depth
MisdeclaredInputs ==
    UNION { { <<rows, l, d>> : rows \in [1..ad -> [1..al -> {"a"}]] } :
            ad \in 0..MaxDepth, al \in 0..MaxLength, d \in 0..MaxDepth, l \in 0..MaxLength }

WellShaped(g, len, dep) == Len(g) = dep /\ \A i \in 1..Len(g) : Len(g[i]) = len

NoOutcome == [op |-> "none", exc |-> "", val |-> <<>>]

\* --------------------------------------------------------------- actions
\* Grid.__init__ (and Finder.__init__ over it)
Construct(rows, len, dep) ==
    /\ grid' = rows
    /\ length' = len
    /\ depth' = dep
    /\ _letters' = <<>>
    /\ _lines' = <<>>
    /\ _number' = 0
    /\ _words' = <<>>
    /\ ret' = Return("__init__", <<>>)

GridInit ==
    /\ ret.op = "none"
    /\ \E in \in GridInputs(Letters) \cup MisdeclaredInputs : Construct(in[1], in[2], in[3])
    /\ UNCHANGED <<fs, prev, opened, pulled, loop, yielded>>

ReadLetters ==
    /\ ret.op # "none"
    /\ _letters' = <<letters(grid, _letters)>>
    /\ ret' = Return("letters", letters(grid, _letters))
    /\ UNCHANGED <<grid, length, depth, _lines, _number, _words, fs, prev, opened, pulled,
                   loop, yielded>>

ReadHorizontalLines ==
    /\ ret.op # "none"
    /\ ret' = Return("horizontal_lines", horizontal_lines(grid))
    /\ UNCHANGED <<grid, length, depth, _letters, _lines, _number, _words, fs, prev, opened,
                   pulled, loop, yielded>>

ReadVerticalLines ==
    /\ ret.op # "none"
    /\ ret' = IF VerticalFault(grid, length, depth)
              THEN Raise("vertical_lines", "IndexError")
              ELSE Return("vertical_lines", vertical_lines(grid, length, depth))
    /\ UNCHANGED <<grid, length, depth, _letters, _lines, _number, _words, fs, prev, opened,
                   pulled, loop, yielded>>

ReadDiagonalLines ==
    /\ ret.op # "none"
    /\ ret' = IF DiagonalFault(grid, length, depth)
              THEN Raise("diagonal_lines", "IndexError")
              ELSE Return("diagonal_lines", diagonal_lines(grid, length, depth))
    /\ UNCHANGED <<grid, length, depth, _letters, _lines, _number, _words, fs, prev, opened,
                   pulled, loop, yielded>>

ReadLines ==
    /\ ret.op # "none"
    /\ IF ~LinesCacheHit(_lines) /\ LinesFault(grid, length, depth)
       THEN /\ ret' = Raise("lines", "IndexError")
            /\ UNCHANGED _lines
       ELSE \E ls \in lines(grid, length, depth, _lines) :
                /\ _lines' = <<ls>>
                /\ ret' = Return("lines", ls)
    /\ UNCHANGED <<grid, length, depth, _letters, _number, _words, fs, prev, opened, pulled,
                   loop, yielded>>

\* Finder.find_words(file_path): the generators are created without running,
\* letters is read for filter_by_letters, then the guard, then lines, then
\* the loop that drives the generators
FindWords ==
    /\ ret.op # "none"
    /\ _letters' = <<letters(grid, _letters)>>
    /\ prev' = IF ret.op = "find_words" THEN ret ELSE prev
    /\ IF GridIsEmpty(length, depth)
       THEN /\ ret' = Return("find_words", <<>>)
            /\ opened' = FALSE
            /\ pulled' = 0
            /\ UNCHANGED _lines
       ELSE IF ~LinesCacheHit(_lines) /\ LinesFault(grid, length, depth)
       THEN /\ ret' = Raise("find_words", "IndexError")
            /\ opened' = FALSE
            /\ pulled' = 0
            /\ UNCHANGED _lines
       ELSE \E ls \in lines(grid, length, depth, _lines) :
                LET out == Search(fs, length, depth, letters(grid, _letters), ls)
                IN /\ _lines' = <<ls>>
                   /\ ret' = [op |-> "find_words", exc |-> out.exc, val |-> out.val]
                   /\ opened' = out.opened
                   /\ pulled' = out.pulled
    /\ UNCHANGED <<grid, length, depth, _number, _words, fs, loop, yielded>>

\* Grid.__next__: `if self._number >= len(self.grid)`
NextStops(g, number) == number >= Len(g)

\* a __next__ call made by some earlier loop over the Grid
EarlierNext ==
    /\ loop = "idle"
    /\ IF NextStops(grid, _number)
       THEN /\ _number' = 0
            /\ ret' = Raise("__next__", "StopIteration")
       ELSE /\ _number' = _number + 1
            /\ ret' = Return("__next__", grid[_number + 1])
    /\ UNCHANGED <<grid, length, depth, _letters, _lines, _words, fs, prev, opened, pulled,
                   loop, yielded>>

\* Grid.__iter__: a new for-loop starts; it returns self and resets nothing
GridIter ==
    /\ loop \in {"idle", "stopped"}
    /\ loop' = "running"
    /\ yielded' = <<>>
    /\ ret' = Return("__iter__", <<>>)
    /\ UNCHANGED <<grid, length, depth, _letters, _lines, _number, _words, fs, prev, opened,
                   pulled>>

\* Grid.__next__ called by the observed loop
GridNext ==
    /\ loop = "running"
    /\ IF NextStops(grid, _number)
       THEN /\ _number' = 0
            /\ ret' = Raise("__next__", "StopIteration")
            /\ loop' = "stopped"
            /\ UNCHANGED yielded
       ELSE /\ _number' = _number + 1
            /\ ret' = Return("__next__", grid[_number + 1])
            /\ yielded' = Append(yielded, _number)
            /\ UNCHANGED loop
    /\ UNCHANGED <<grid, length, depth, _letters, _lines, _words, fs, prev, opened, pulled>>

\* the observed loop is left by a break
Break ==
    /\ loop = "running"
    /\ loop' = "idle"
    /\ yielded' = <<>>
    /\ UNCHANGED <<grid, length, depth, _letters, _lines, _number, _words, fs, ret, prev,
                   opened, pulled>>

\* -------------------------------------------------------- specifications
Rest ==
    /\ prev = NoOutcome
    /\ opened = FALSE
    /\ pulled = 0
    /\ loop = "idle"
    /\ yielded = <<>>

Constructed(in) ==
    /\ grid = in[1]
    /\ length = in[2]
    /\ depth = in[3]
    /\ _letters = <<>>
    /\ _lines = <<>>
    /\ _number = 0
    /\ _words = <<>>
    /\ ret = Return("__init__", <<>>)

\* a Finder over a rectangular Grid and a dictionary path
Init ==
    /\ \E in \in GridInputs(Letters) : Constructed(in)
    /\ fs \in Sources
    /\ Rest

Next == FindWords

Spec == Init /\ [][Next]_vars

\* the same over a three-letter alphabet and a one-line dictionary
InitWide ==
    /\ \E in \in GridInputs(WideLetters) : Constructed(in)
    /\ fs \in { File(<<w>>) : w \in Dictionary }
    /\ Rest

SpecWide == InitWide /\ [][Next]_vars

\* construction of a Grid from hand-made arguments, then its accessors
InitGrid ==
    /\ grid = <<>>
    /\ length = 0
    /\ depth = 0
    /\ _letters = <<>>
    /\ _lines = <<>>
    /\ _number = 0
    /\ _words = <<>>
    /\ ret = NoOutcome
    /\ fs = NoFile
    /\ Rest

NextGrid ==
    \/ GridInit
    \/ ReadLetters
    \/ ReadHorizontalLines
    \/ ReadVerticalLines
    \/ ReadDiagonalLines
    \/ ReadLines

SpecGrid == InitGrid /\ [][NextGrid]_vars

\* loops over a rectangular Grid
InitIter ==
    /\ \E in \in GridInputs(Letters) : Constructed(in)
    /\ fs = NoFile
    /\ Rest

NextIter ==
    \/ EarlierNext
    \/ GridIter
    \/ GridNext
    \/ Break

SpecIter == InitIter /\ [][NextIter]_vars

\* ------------------------------------------------------------ properties
\* the words the source yields: the lines of the file, stripped
Words(f) == [i \in 1..Len(f.content) |-> Strip(f.content[i])]

CachedLines == IF _lines = <<>> THEN <<>> ELSE _lines[1]

InSomeLine(word) == \E i \in 1..Len(CachedLines) : Contains(CachedLines[i], word)

Elements(s) == {s[i] : i \in 1..Len(s)}

\* s can be read from the cells start, start + step, start + 2 step, ... of g,
\* with step in {-1,0,1} x {-1,0,1} and no cell used twice
StraightReadable(g, s) ==
    \/ s = <<>>
    \/ \E r0 \in 1..Len(g), dr \in {-1, 0, 1}, dc \in {-1, 0, 1} :
         \E c0 \in 1..Len(g[r0]) :
           /\ Len(s) > 1 => ~(dr = 0 /\ dc = 0)
           /\ \A k \in 0..(Len(s) - 1) :
                /\ r0 + k * dr \in 1..Len(g)
                /\ c0 + k * dc \in 1..Len(g[r0 + k * dr])
                /\ g[r0 + k * dr][c0 + k * dc] = s[k + 1]

\* C1: over a rectangular grid without '|' and a source of non-empty words,
\* find_words returns exactly the source words that are a substring of one
\* single line of grid.lines, in source order, duplicates kept.
C1_ExactlyLineSubstrings ==
    (/\ ret.op = "find_words"
     /\ ~SourceUnavailable(fs)
     /\ \A i \in 1..Len(fs.content) : Words(fs)[i] # <<>>)
    => /\ ret.exc = ""
       /\ ret.val = SelectSeq(Words(fs), InSomeLine)

\* C2: whenever find_words returns, every non-empty source word that can be
\* read along a row, a column or a diagonal of either slant, in either
\* direction, is among the returned words.
C2_StraightWordsFound ==
    (ret.op = "find_words" /\ ret.exc = "" /\ ~SourceUnavailable(fs))
    => \A i \in 1..Len(fs.content) :
         (Words(fs)[i] # <<>> /\ StraightReadable(grid, Words(fs)[i]))
         => Words(fs)[i] \in Elements(ret.val)

\* C3: every string of grid.lines of a rectangular grid is the reading of
\* distinct cells along one straight line with a step in {-1,0,1} x {-1,0,1}.
C3_LinesAreStraight ==
    (WellShaped(grid, length, depth) /\ _lines # <<>>)
    => \A i \in 1..Len(_lines[1]) : StraightReadable(grid, _lines[1][i])

\* C4 as stated: for every grid, a max_size < 1 one included, find_words on a
\* path that is missing or no regular file fails with FileNotFoundError.
C4_UnavailableAlwaysFails ==
    (ret.op = "find_words" /\ SourceUnavailable(fs)) => ret.exc = "FileNotFoundError"

\* C4 amended: for every rectangular grid with max_size >= 1, find_words on a
\* path that is missing or no regular file fails with FileNotFoundError and
\* gives no result list.
C4_UnavailableFailsOnNonEmptyGrid ==
    (/\ ret.op = "find_words"
     /\ SourceUnavailable(fs)
     /\ WellShaped(grid, length, depth)
     /\ (length >= 1 \/ depth >= 1))
    => ret = Raise("find_words", "FileNotFoundError")

C4_Witness ==
    /\ ret.op = "find_words"
    /\ fs = Directory
    /\ length = 1
    /\ depth = 1
    /\ ret.exc = "FileNotFoundError"

\* C5: with max_size < 1 find_words returns the empty list and nothing is
\* pulled from the word source: it is neither opened nor iterated, so a
\* source that fails on its first read does not make the call fail.
C5_EmptyGridNeverReads ==
    (ret.op = "find_words" /\ length < 1 /\ depth < 1)
    => /\ ret = Return("find_words", <<>>)
       /\ ~opened
       /\ pulled = 0

C5_Witness ==
    /\ ret.op = "find_words"
    /\ length = 0
    /\ depth = 0
    /\ fs = NoFile
    /\ ret.exc = ""

\* C6: with max_size >= 1, a zero-length word in the source does not make
\* find_words fail with an index fault: it is skipped or reported through a
\* dedicated empty-word error.
C6_EmptyWordNoIndexFault ==
    (/\ ret.op = "find_words"
     /\ (length >= 1 \/ depth >= 1)
     /\ ~SourceUnavailable(fs)
     /\ \E i \in 1..Len(fs.content) : Words(fs)[i] = <<>>)
    => ret.exc \in {"", "EmptyWordError"}

\* C7: construction fails with an invalid-shape error whenever the declared
\* length or depth disagrees with the rows, so no Grid exists with such
\* dimensions and no accessor hits an index fault.
C7_ShapeIsValidated ==
    /\ (ret.op # "none" /\ ~WellShaped(grid, length, depth)) => ret.exc = "InvalidShapeError"
    /\ ret.exc # "IndexError"

\* C8: a second find_words call on the same Finder, Grid and source content
\* has the outcome of the call before it.
C8_SecondCallSame ==
    prev.op = "find_words" => ret = prev

C8_Witness ==
    /\ prev.op = "find_words"
    /\ ret.exc = ""
    /\ ret.val # <<>>
    /\ depth = 3

\* C9: over a rectangular grid horizontal_lines has 2*height entries, entry
\* 2i row i left to right and entry 2i+1 its reverse; vertical_lines has
\* 2*width entries, entry 2c column c top to bottom and entry 2c+1 its reverse.
C9_HorizontalVerticalPairs ==
    /\ (WellShaped(grid, length, depth) /\ ret.op = "horizontal_lines")
       => /\ ret.exc = ""
          /\ Len(ret.val) = 2 * depth
          /\ \A i \in 0..(depth - 1) :
               /\ ret.val[2 * i + 1] = [j \in 1..length |-> grid[i + 1][j]]
               /\ ret.val[2 * i + 2] = [j \in 1..length |-> grid[i + 1][length + 1 - j]]
    /\ (WellShaped(grid, length, depth) /\ ret.op = "vertical_lines")
       => /\ ret.exc = ""
          /\ Len(ret.val) = 2 * length
          /\ \A c \in 0..(length - 1) :
               /\ ret.val[2 * c + 1] = [r \in 1..depth |-> grid[r][c + 1]]
               /\ ret.val[2 * c + 2] = [r \in 1..depth |-> grid[depth + 1 - r][c + 1]]

C9_Witness ==
    /\ WellShaped(grid, length, depth)
    /\ ret.op = "vertical_lines"
    /\ ret.exc = ""
    /\ length = 2
    /\ depth = 3
    /\ ret.val[1] # ret.val[2]
    /\ ret.val[3] # ret.val[4]

\* C10: after any earlier iteration steps, a new loop over the Grid that runs
\* until StopIteration is given every row once, in index order 0..height-1.
C10_NewLoopYieldsAllRows ==
    loop = "stopped" => yielded = [i \in 1..Len(grid) |-> i - 1]
====
